---- MODULE Spec2Model ----
(***************************************************************************)
(* Model of sharednet/modules/tool.py: the experiment ledger               *)
(* (record_1st / record_2nd and their helpers) as run by several           *)
(* experiment processes that share one ledger file, one cp_ backup and a   *)
(* tree of experiment directories.                                         *)
(*                                                                         *)
(* A ledger file is [exists, rows]; rows is the sequence of data rows of   *)
(* the csv (an existing file with no rows is the zero-byte file that       *)
(* open(record_file, 'a') creates).  A row is a record of cells; NA / "NA" *)
(* is an absent cell.  Times are integers read from a shared clock.        *)
(*                                                                         *)
(* The Path Provider (sharednet.modules.path: Mypath, MypathBase) is not   *)
(* part of the source file; MypathInit models its constructor from the     *)
(* way tool.py uses it.  record_fpath is taken to be one value that        *)
(* supports str(), + ".lock" and .name alike.                              *)
(***************************************************************************)
EXTENDS Integers, Sequences, FiniteSets, TLC

\* ------------------------------------------------------------------ bounds
NumProcs == 2
MaxTime == 1
MaxInitLen == 2
MaxInitId == 3

Procs == 1..NumProcs
\* every process runs one experiment: record_1st at its start, record_2nd at its end
MaxRows == NumProcs
MaxId == MaxInitId + NumProcs
IdRange == 1..MaxId

\* ------------------------------------------------------------------ cells
NA == 0 - 1
NoProc == 0

Modes == <<"train", "valid", "test">>
NumModes == Len(Modes)
NoLog == << >>

\* the loss column of the loss logs a training run may leave behind, in 1/10000
LossLogs == { <<1270, 1234>> }
\* which modes a training run has written so far
LogKinds == { {1, 2}, {1, 2, 3} }

\* log_dict values: a scalar, or a list that record_2nd flattens
LogInputs == { [seq |-> FALSE, items |-> <<7>>], [seq |-> TRUE, items |-> <<1, 2, 3>>] }
\* a log cell: absent, an integer, or a string
NoCell == [kind |-> "na", val |-> 0, text |-> ""]
NoInput == [seq |-> FALSE, items |-> << >>]

Last(s) == s[Len(s)]

NewRow(id, t) ==
    [ID |-> id, start |-> t, end |-> NA, elapsed |-> NA, metrics_min |-> "NA",
     loss |-> [m \in 1..NumModes |-> NA], log |-> NoCell, State |-> "NA"]

NoFile == [exists |-> FALSE, rows |-> << >>]
NoRowFile == [exists |-> FALSE, row |-> NewRow(0, 0)]

VARIABLES
    ledger,     \* the ledger file (MypathBase().record_fpath)
    cp,         \* the cp_ backup next to it
    idfile,     \* per experiment directory: the single-row backup file
    dirs,       \* the experiment directories that exist
    lossLog,    \* per experiment directory and mode: the loss log (NoLog: no file)
    locks,      \* per lock file name: the process holding it, or NoProc
    clock,      \* the wall clock
    pc,         \* per process: where it is
    op,         \* per process: the operation it is in ("1st", "2nd", "none")
    df,         \* per process: its in-memory table
    new_id,     \* per process: record_1st's new_id (0: none)
    cur_id,     \* per process: record_2nd's args.id
    infer_ID,   \* per process: record_2nd's args.infer_ID
    log_dict,   \* per process: record_2nd's log_dict value
    result,     \* per process: how its last operation ended
    started,    \* history: the IDs record_1st has returned
    fin,        \* history: per ID, what the last completed record_2nd of a started ID wrote
    stray,      \* history: some record_2nd was called for an ID that was never returned
    env,        \* what the surroundings can do: seff's answers, how far the clock runs
    tele,       \* a call of record_cgpu_info: its arguments, locals and effects
    typed,      \* one argument column of the ledger file, as text, and the last call on it
    fill        \* a call of fill_running on a table with outfile fields

\* the ledger shared by the experiment processes
ledgerVars == <<ledger, cp, idfile, dirs, lossLog, locks, clock, pc, op, df, new_id,
                cur_id, infer_ID, log_dict, result, started, fin, stray, env>>
\* the single-caller parts: telemetry, the typing of a column, fill_running
aside == <<tele, typed, fill>>

vars == <<ledgerVars, aside>>

files == <<ledger, cp, idfile>>
locals == <<df, new_id, cur_id, infer_ID, log_dict>>
history == <<started, fin, stray>>

\* ------------------------------------------------------------------ path provider
\* MypathBase().record_fpath, and the lock file names the two operations build
record_fpath == "records.csv"
LockName1st == record_fpath \o ".lock"
LockName2ndOther == record_fpath \o ".lck"
LockName2nd == record_fpath \o ".lock"
LockNames == {LockName1st, LockName2nd}

\* Mypath(id, check_id_dir): refuses an existing directory when asked to check,
\* and otherwise leaves the experiment directory in place
MypathInit(ds, id, check_id_dir) ==
    IF check_id_dir /\ id \in ds
    THEN [ok |-> FALSE, dirs |-> ds]
    ELSE [ok |-> TRUE, dirs |-> ds \cup {id}]

\* ------------------------------------------------------------------ helpers
get_df_id_from0(file) ==
    IF ~file.exists \/ file.rows = << >>
    THEN [df |-> << >>, new_id |-> 0]
    ELSE [df |-> file.rows, new_id |-> Last(file.rows).ID + 1]

MaxOf(S) == CHOOSE i \in S : \A j \in S : j <= i
get_df_id_len(file) ==
    IF ~file.exists \/ file.rows = << >>
    THEN [df |-> << >>, new_id |-> 1]
    ELSE [df |-> file.rows, new_id |-> Len(file.rows) + 1]
get_df_id_max(file) ==
    IF ~file.exists \/ file.rows = << >>
    THEN [df |-> << >>, new_id |-> 1]
    ELSE [df |-> file.rows,
          new_id |-> MaxOf({file.rows[i].ID : i \in 1..Len(file.rows)}) + 1]

\* get_df_id: the table and the latest ID + 1
get_df_id(file) ==
    IF ~file.exists \/ file.rows = << >>
    THEN [df |-> << >>, new_id |-> 1]
    ELSE [df |-> file.rows, new_id |-> Last(file.rows).ID + 1]

AppendRowLastId(d, id, t) ==
    Append(d, NewRow(IF d = << >> THEN id ELSE Last(d).ID, t))

\* record_1st, lines 241-246: the new row goes below the last one
AppendRow(d, id, t) == Append(d, NewRow(id, t))

\* fill_running: a row without State, or still RUNNING, takes what seff reports
\* for it; seff[i] = "none" is a row whose lookup fails or prints nothing
SeffOut == {"none", "RUNNING", "COMPLETED"}
Qualifies(row) == row.State \in {"NA", "RUNNING"}
fill_running_until_failure(d, seff) ==
    [i \in 1..Len(d) |->
        IF /\ Qualifies(d[i])
           /\ \A j \in 1..i : Qualifies(d[j]) => seff[j] # "none"
        THEN [d[i] EXCEPT !.State = seff[i]]
        ELSE d[i]]
fill_running(d, seff) ==
    [i \in 1..Len(d) |->
        IF Qualifies(d[i]) /\ seff[i] # "none"
        THEN [d[i] EXCEPT !.State = seff[i]]
        ELSE d[i]]

\* record_2nd, lines 276-282: the rows whose ID is current_id
Matches(d, id) == {i \in 1..Len(d) : d[i].ID = id}
MinOf(S) == CHOOSE i \in S : \A j \in S : i <= j
Index(d, id) == IF Matches(d, id) = {} THEN 1 ELSE MinOf(Matches(d, id))
TooManyOverTwo(d, id) == Cardinality(Matches(d, id)) > 2
TooMany(d, id) == Cardinality(Matches(d, id)) > 1

\* time_diff, on the integer clock
time_diff(t1, t2) == t2 - t1

\* idxmin of the loss column: the first row that holds the minimum
idxmin(l) == CHOOSE i \in 1..Len(l) :
                /\ \A j \in 1..Len(l) : l[i] <= l[j]
                /\ \A j \in 1..(i - 1) : l[j] > l[i]

\* round(loss, 2) of a loss in 1/10000, in 1/100: to the nearest, a half to even
Round2(x) ==
    LET q == x \div 100
        r == x % 100
    IN  IF r > 50 \/ (r = 50 /\ q % 2 = 1) THEN q + 1 ELSE q

\* add_best_metrics from mode m on: reads the current directory's loss log,
\* copies it from the old directory when it is missing there; shutil.copy of a
\* missing source raises.  Yields the table, the loss logs on disk and ok.
RECURSIVE BestFrom(_, _, _, _, _, _)
BestFrom(m, d, ll, cur, old, index) ==
    IF m > NumModes THEN [ok |-> TRUE, df |-> d, lossLog |-> ll]
    ELSE IF ll[cur][m] # NoLog
    THEN BestFrom(m + 1,
                  [d EXCEPT ![index].loss[m] = Round2(ll[cur][m][idxmin(ll[cur][m])])],
                  ll, cur, old, index)
    ELSE IF ll[old][m] = NoLog
    THEN [ok |-> FALSE, df |-> d, lossLog |-> ll]
    ELSE LET ll2 == [ll EXCEPT ![cur][m] = ll[old][m]]
         IN  BestFrom(m + 1,
                      [d EXCEPT ![index].loss[m] = Round2(ll2[cur][m][idxmin(ll2[cur][m])])],
                      ll2, cur, old, index)

add_best_metrics(d, ll, cur, old, index) ==
    BestFrom(1, [d EXCEPT ![index].metrics_min = "loss"], ll, cur, old, index)

\* record_2nd, lines 301-308: a list is stored as the string of its elements,
\* each followed by "_"; any other value is stored as it is
RECURSIVE StrV(_, _)
StrV(items, sep) ==
    IF items = << >> THEN ""
    ELSE ToString(items[1]) \o sep \o StrV(Tail(items), sep)
RECURSIVE StrJoin(_, _)
StrJoin(items, sep) ==
    IF Len(items) <= 1 THEN StrV(items, "")
    ELSE ToString(items[1]) \o sep \o StrJoin(Tail(items), sep)
FlattenJoined(v) ==
    IF v.seq THEN [kind |-> "str", val |-> 0, text |-> StrJoin(v.items, "_")]
    ELSE [kind |-> "int", val |-> v.items[1], text |-> ""]
Flatten(v) ==
    IF v.seq THEN [kind |-> "str", val |-> 0, text |-> StrV(v.items, "_")]
    ELSE [kind |-> "int", val |-> v.items[1], text |-> ""]

\* ------------------------------------------------------------------ initial states
\* the surroundings: seff answers anything and the clock runs; or seff is
\* silent and the clock stands still; or, on top of that, every caller logs
\* the same value
FullEnv == [seffOut |-> SeffOut, maxTime |-> MaxTime, logInputs |-> LogInputs]
QuietEnv == [seffOut |-> {"none"}, maxTime |-> 0, logInputs |-> LogInputs]
StillEnv == [seffOut |-> {"none"}, maxTime |-> 0,
             logInputs |-> {[seq |-> FALSE, items |-> <<7>>]}]

\* nothing running beside the ledger
TeleOff == [pc |-> "off"]
TypedOff == [pc |-> "off"]
FillOff == [pc |-> "off"]
AsideOff == tele = TeleOff /\ typed = TypedOff /\ fill = FillOff

Idle(live) ==
    /\ pc = [p \in Procs |-> IF p \in live THEN "idle" ELSE "exited"]
    /\ op = [p \in Procs |-> "none"]
    /\ df = [p \in Procs |-> << >>]
    /\ new_id = [p \in Procs |-> 0]
    /\ cur_id = [p \in Procs |-> 0]
    /\ infer_ID = [p \in Procs |-> 0]
    /\ log_dict = [p \in Procs |-> NoInput]
    /\ result = [p \in Procs |-> "none"]
    /\ locks = [n \in LockNames |-> NoProc]
    /\ clock = 0
    /\ started = {}
    /\ fin = [i \in IdRange |-> [end |-> NA, log |-> NoCell]]
    /\ stray = FALSE
    /\ AsideOff

\* an empty or absent ledger and no experiment directories
InitEmpty ==
    /\ ledger \in {NoFile, [exists |-> TRUE, rows |-> << >>]}
    /\ cp = NoFile
    /\ idfile = [i \in IdRange |-> NoRowFile]
    /\ dirs = {}
    /\ lossLog = [i \in IdRange |-> [m \in 1..NumModes |-> NoLog]]
    /\ Idle(Procs)

\* a ledger left behind by earlier runs (or edited by hand): any IDs in any
\* order, every row started, not finalized and already filled in by seff as
\* COMPLETED, its directory and backup in place
OldRow(id) == [NewRow(id, 0) EXCEPT !.State = "COMPLETED"]
SeededRows == UNION { [1..n -> 1..MaxInitId] : n \in 0..MaxInitLen }
IdsOf(d) == {d[i].ID : i \in 1..Len(d)}
InitSeeded(seeds, live) ==
    /\ \E ids \in seeds :
          /\ ledger \in {[exists |-> TRUE, rows |-> [i \in 1..Len(ids) |-> OldRow(ids[i])]]}
                          \cup (IF ids = << >> THEN {NoFile} ELSE {})
          /\ dirs = {ids[i] : i \in 1..Len(ids)}
    /\ cp = ledger
    /\ idfile = [i \in IdRange |->
                    IF i \in dirs THEN [exists |-> TRUE, row |-> OldRow(i)] ELSE NoRowFile]
    /\ lossLog = [i \in IdRange |-> [m \in 1..NumModes |-> NoLog]]
    /\ Idle(live)

Init == InitEmpty /\ env = FullEnv

\* the same, with seff silent and the clock standing still
InitQuiet == InitEmpty /\ env = QuietEnv

\* any seeded ledger, one process working on it
InitAny == InitSeeded(SeededRows, {1}) /\ env = FullEnv

\* an empty or absent ledger, or one in which an ID occurs twice; all
\* processes working on it
InitLive == (InitEmpty \/ InitSeeded({<<1, 1>>}, Procs)) /\ env = StillEnv

\* ------------------------------------------------------------------ locking
Holder(n) == locks[n]
LockFreeAlways(n) == TRUE
LockFree(n) == locks[n] = NoProc
Acquire(n, p) == locks' = [locks EXCEPT ![n] = p]
Release(n) == locks' = [locks EXCEPT ![n] = NoProc]
LockOf(p) == IF op[p] = "1st" THEN LockName1st ELSE LockName2nd

\* ------------------------------------------------------------------ record_1st
Call1st(p) ==
    /\ pc[p] = "idle"
    /\ pc' = [pc EXCEPT ![p] = "r1_lock"]
    /\ op' = [op EXCEPT ![p] = "1st"]
    /\ UNCHANGED <<aside, env, files, dirs, lossLog, locks, clock, locals, result, history>>

\* record_1st asks Mypath to refuse a directory that is already there
CheckIdDirOff == FALSE
CheckIdDir1st == TRUE

\* with lock:
R1Lock(p) ==
    /\ pc[p] = "r1_lock"
    /\ LockFree(LockName1st)
    /\ Acquire(LockName1st, p)
    /\ pc' = [pc EXCEPT ![p] = "r1_body"]
    /\ UNCHANGED <<aside, env, files, dirs, lossLog, clock, op, locals, result, history>>

\* lines 230-249: open, get_df_id, Mypath, the new row, fill_running
\* (correct_type changes the dtype of columns, which rows here do not carry)
R1Body(p) ==
    /\ pc[p] = "r1_body"
    /\ LET opened == [exists |-> TRUE, rows |-> ledger.rows]
           got == get_df_id(opened)
           mp == MypathInit(dirs, got.new_id, CheckIdDir1st)
       IN  /\ ledger' = opened
           /\ dirs' = mp.dirs
           /\ IF ~mp.ok
              THEN /\ result' = [result EXCEPT ![p] = "DirCollision"]
                   /\ pc' = [pc EXCEPT ![p] = "unlock"]
                   /\ UNCHANGED <<clock, df, new_id>>
              ELSE \E t \in clock..env.maxTime :
                   \E seff \in [1..(Len(got.df) + 1) -> env.seffOut] :
                       /\ clock' = t
                       /\ new_id' = [new_id EXCEPT ![p] = got.new_id]
                       /\ df' = [df EXCEPT ![p] =
                                    fill_running(AppendRow(got.df, got.new_id, t), seff)]
                       /\ pc' = [pc EXCEPT ![p] = "wb_csv"]
                       /\ UNCHANGED result
    /\ UNCHANGED <<aside, env, cp, idfile, lossLog, locks, op, cur_id, infer_ID, log_dict, history>>

\* ------------------------------------------------------------------ write_and_backup
\* the directory of the Mypath handed to write_and_backup
IdDir(p) == IF op[p] = "1st" THEN new_id[p] ELSE cur_id[p]

\* df.to_csv(record_file)
WbCsv(p) ==
    /\ pc[p] = "wb_csv"
    /\ ledger' = [exists |-> TRUE, rows |-> df[p]]
    /\ pc' = [pc EXCEPT ![p] = "wb_cp"]
    /\ UNCHANGED <<aside, env, cp, idfile, dirs, lossLog, locks, clock, op, locals, result, history>>

\* shutil.copy(record_file, cp_...): the copy has the content of the source
CopyHeaderOnly(file) == [exists |-> file.exists, rows |-> << >>]
ShutilCopy(file) == [exists |-> file.exists, rows |-> file.rows]
WbCp(p) ==
    /\ pc[p] = "wb_cp"
    /\ cp' = ShutilCopy(ledger)
    /\ pc' = [pc EXCEPT ![p] = "wb_id"]
    /\ UNCHANGED <<aside, env, ledger, idfile, dirs, lossLog, locks, clock, op, locals, result, history>>

\* df.iloc[[-1]].to_csv(mypath.id_dir/...)
LastRowOf(d) == Last(d)
WbId(p) ==
    /\ pc[p] = "wb_id"
    /\ idfile' = [idfile EXCEPT ![IdDir(p)] = [exists |-> TRUE, row |-> LastRowOf(df[p])]]
    /\ result' = [result EXCEPT ![p] = "ok"]
    /\ pc' = [pc EXCEPT ![p] = "unlock"]
    /\ UNCHANGED <<aside, env, ledger, cp, dirs, lossLog, locks, clock, op, locals, history>>

\* "with lock:" releases however the block is left
ExitReleasesOnReturn(p) == result[p] = "ok"
ExitReleases(p) == TRUE

\* leaving the with block, by return or by exception
Unlock(p) ==
    /\ pc[p] = "unlock"
    /\ IF ExitReleases(p) THEN Release(LockOf(p)) ELSE UNCHANGED locks
    /\ pc' = [pc EXCEPT ![p] =
                 IF op[p] = "1st" /\ result[p] = "ok" THEN "running" ELSE "exited"]
    /\ op' = [op EXCEPT ![p] = "none"]
    /\ started' = IF op[p] = "1st" /\ result[p] = "ok"
                  THEN started \cup {new_id[p]} ELSE started
    /\ fin' = IF op[p] = "2nd" /\ result[p] = "ok" /\ cur_id[p] \in started
              THEN [fin EXCEPT ![cur_id[p]] =
                       [end |-> df[p][Index(df[p], cur_id[p])].end,
                        log |-> df[p][Index(df[p], cur_id[p])].log]]
              ELSE fin
    /\ df' = [df EXCEPT ![p] = << >>]
    /\ cur_id' = [cur_id EXCEPT ![p] = 0]
    /\ infer_ID' = [infer_ID EXCEPT ![p] = 0]
    /\ log_dict' = [log_dict EXCEPT ![p] = NoInput]
    /\ new_id' = [new_id EXCEPT ![p] = 0]
    /\ UNCHANGED <<aside, env, files, dirs, lossLog, clock, result, stray>>

\* ------------------------------------------------------------------ record_2nd
\* the arguments (args.id, args.infer_ID, log_dict) are the caller's; nothing
\* reads them before the lock is taken, so they are drawn in R2Lock
Call2nd(p) ==
    /\ pc[p] \in {"idle", "running"}
    /\ pc' = [pc EXCEPT ![p] = "r2_lock"]
    /\ op' = [op EXCEPT ![p] = "2nd"]
    /\ UNCHANGED <<aside, env, files, dirs, lossLog, locks, clock, locals, result, history>>

R2Lock(p) ==
    /\ pc[p] = "r2_lock"
    /\ LockFree(LockName2nd)
    /\ Acquire(LockName2nd, p)
    /\ \E id \in 1..MaxRows, old \in 1..MaxRows, v \in env.logInputs :
        /\ cur_id' = [cur_id EXCEPT ![p] = id]
        /\ infer_ID' = [infer_ID EXCEPT ![p] = old]
        /\ log_dict' = [log_dict EXCEPT ![p] = v]
        /\ stray' = (stray \/ id \notin started)
    /\ pc' = [pc EXCEPT ![p] = "r2_body"]
    /\ UNCHANGED <<aside, env, files, dirs, lossLog, clock, op, df, new_id, result, started, fin>>

Fail2nd(p, why) ==
    /\ result' = [result EXCEPT ![p] = why]
    /\ pc' = [pc EXCEPT ![p] = "unlock"]

\* lines 275-320: read, select the row, stamp, best metrics, log values
R2Body(p) ==
    /\ pc[p] = "r2_body"
    /\ IF ~ledger.exists
       THEN Fail2nd(p, "FileNotFound") /\ UNCHANGED <<dirs, lossLog, clock, df>>
       ELSE IF ledger.rows = << >>
       THEN Fail2nd(p, "EmptyData") /\ UNCHANGED <<dirs, lossLog, clock, df>>
       ELSE IF TooMany(ledger.rows, cur_id[p])
       THEN Fail2nd(p, "DuplicateID") /\ UNCHANGED <<dirs, lossLog, clock, df>>
       ELSE \E t \in clock..env.maxTime :
            LET index == Index(ledger.rows, cur_id[p])
                d1 == [ledger.rows EXCEPT
                          ![index].end = t,
                          ![index].elapsed = time_diff(ledger.rows[index].start, t)]
                ds == MypathInit(MypathInit(dirs, cur_id[p], FALSE).dirs,
                                 infer_ID[p], FALSE).dirs
                best == add_best_metrics(d1, lossLog, cur_id[p], infer_ID[p], index)
            IN  /\ clock' = t
                /\ dirs' = ds
                /\ lossLog' = best.lossLog
                /\ IF ~best.ok
                   THEN Fail2nd(p, "FileNotFound") /\ UNCHANGED df
                   ELSE /\ df' = [df EXCEPT ![p] =
                                     [best.df EXCEPT ![index].log = Flatten(log_dict[p])]]
                        /\ pc' = [pc EXCEPT ![p] = "wb_csv"]
                        /\ UNCHANGED result
    /\ UNCHANGED <<aside, env, files, locks, op, new_id, cur_id, infer_ID, log_dict, history>>

\* ------------------------------------------------------------------ the training run
\* between start and finalize the training process of an experiment writes
\* its loss logs into its own experiment directory
TrainLogs(id) ==
    /\ id \in started
    /\ lossLog[id][1] = NoLog
    /\ \E k \in LogKinds, l \in LossLogs :
          lossLog' = [lossLog EXCEPT ![id] =
                         [m \in 1..NumModes |-> IF m \in k THEN l ELSE @[m]]]
    /\ UNCHANGED <<aside, env, files, dirs, locks, clock, pc, op, locals, result, history>>

Step(p) ==
    \/ R1Lock(p)
    \/ R1Body(p)
    \/ R2Lock(p)
    \/ R2Body(p)
    \/ WbCsv(p)
    \/ WbCp(p)
    \/ WbId(p)
    \/ Unlock(p)

Next ==
    \/ \E id \in IdRange : TrainLogs(id)
    \/ \E p \in Procs : Call1st(p)
    \/ \E p \in Procs : Call2nd(p)
    \/ \E p \in Procs : Step(p)

Spec == Init /\ [][Next]_vars

SpecQuiet == InitQuiet /\ [][Next]_vars

\* the same program on a seeded ledger
SpecAny == InitAny /\ [][Next]_vars

\* a process that is inside an operation keeps running: the scheduler runs
\* every runnable process, and a process blocked on the lock polls it
Fairness == \A p \in Procs : WF_vars(Step(p))
SpecLive == InitLive /\ [][Next]_vars /\ Fairness

\* ------------------------------------------------------------------ properties
InCS(p) == pc[p] \in {"r1_body", "r2_body", "wb_csv", "wb_cp", "wb_id", "unlock"}
Waiting(p) == pc[p] \in {"r1_lock", "r2_lock"}
Quiet == \A p \in Procs : ~InCS(p)
RowOf(d, id) == d[Index(d, id)]

\* C1: started from an empty or absent ledger, in every state every ledger row
\* has a positive ID and no two rows share an ID (in the file, in its cp_ copy
\* and in every table a process is working on).
UniqueIn(d) ==
    /\ \A i \in 1..Len(d) : d[i].ID >= 1
    /\ \A i, j \in 1..Len(d) : i # j => d[i].ID # d[j].ID
C1_UniqueIDs ==
    /\ UniqueIn(ledger.rows)
    /\ UniqueIn(cp.rows)
    /\ \A p \in Procs : UniqueIn(df[p])
C1_Witness ==
    /\ Len(ledger.rows) = NumProcs
    /\ \A p \in Procs : pc[p] = "exited" /\ result[p] = "ok"

\* C2: no two processes are inside the read-modify-write section at once, a
\* process inside it holds the lock of its operation, both operations name
\* the same lock file, and a step that changes the ledger, its cp_ copy or a
\* row backup is taken by the holder of that lock.
C2_Exclusive ==
    /\ \A p, q \in Procs : p # q => ~(InCS(p) /\ InCS(q))
    /\ \A p \in Procs : InCS(p) => Holder(LockOf(p)) = p
    /\ LockName1st = LockName2nd
    /\ LockName1st = record_fpath \o ".lock"
C2_WriterHoldsLock ==
    (ledger' # ledger \/ cp' # cp \/ idfile' # idfile) =>
        \E p \in Procs : InCS(p) /\ Holder(LockOf(p)) = p /\ pc'[p] # pc[p]
C2_MutualExclusion == [](C2_Exclusive) /\ [][C2_WriterHoldsLock]_vars
C2_Witness ==
    \E p, q \in Procs : p # q /\ InCS(p) /\ op[p] = "2nd" /\ pc[q] = "r1_lock"

\* C3: when no process is inside an operation and every finalize so far was
\* for a started experiment, the ledger holds exactly one row per started
\* experiment, and the row of every finalized experiment carries the end stamp
\* and log value its (last) finalize wrote.
C3_NoLostUpdates ==
    (Quiet /\ ~stray) =>
        /\ Len(ledger.rows) = Cardinality(started)
        /\ IdsOf(ledger.rows) = started
        /\ \A id \in started :
              fin[id].end # NA =>
                  /\ RowOf(ledger.rows, id).end = fin[id].end
                  /\ RowOf(ledger.rows, id).log = fin[id].log
C3_Witness ==
    /\ Quiet /\ ~stray
    /\ Cardinality(started) = NumProcs
    /\ \A id \in started : fin[id].end # NA
    /\ \E i, j \in started : fin[i].log # fin[j].log


\* C4: a process that is not inside an operation holds no lock, also after an
\* operation that failed; when no process is inside an operation every lock
\* is free; and no process waits for the lock forever (a waiting process
\* leaves its wait only by acquiring the lock, so again and again nobody waits).
C4_NoLockKept ==
    /\ \A p \in Procs : ~InCS(p) => \A n \in LockNames : Holder(n) # p
    /\ Quiet => \A n \in LockNames : LockFree(n)
C4_LockReleased ==
    /\ [](C4_NoLockKept)
    /\ []<>(\A p \in Procs : ~Waiting(p))
C4_Witness ==
    \E p, q \in Procs :
        /\ pc[p] = "exited" /\ result[p] = "DuplicateID"
        /\ pc[q] = "exited" /\ result[q] = "FileNotFound" /\ ledger.rows # << >>


\* what the ledger file on disk asks for as the next ID
Allocating(p) == op[p] = "1st" /\ pc[p] = "wb_csv"
LastPlusOne(d) == IF d = << >> THEN 1 ELSE Last(d).ID + 1

\* C5: an allocation on an empty or absent ledger yields ID 1, and on a ledger
\* whose last row has ID N it yields N + 1, whatever the earlier rows hold;
\* the row it appends carries that ID.
C5_NextID ==
    \A p \in Procs :
        Allocating(p) =>
            /\ new_id[p] = LastPlusOne(ledger.rows)
            /\ Last(df[p]).ID = new_id[p]
            /\ Len(df[p]) = Len(ledger.rows) + 1
C5_Witness ==
    \E p \in Procs :
        /\ Allocating(p)
        /\ Len(ledger.rows) = 2
        /\ ledger.rows[1].ID > ledger.rows[2].ID + 1

\* C6 as claimed: on every non-empty ledger the new ID is the largest ID in
\* the ledger plus 1, so it is greater than every ID in it.
C6_NewIdIsMaxPlusOne ==
    \A p \in Procs :
        (Allocating(p) /\ ledger.rows # << >>) =>
            /\ new_id[p] = MaxOf(IdsOf(ledger.rows)) + 1
            /\ \A i \in 1..Len(ledger.rows) : new_id[p] > ledger.rows[i].ID

\* C6 as amended: on a non-empty ledger whose last row holds the largest ID
\* the new ID is that largest ID plus 1 and is greater than every ID in the
\* ledger; on any other non-empty ledger it is the last row's ID plus 1, which
\* is not greater than the largest ID.
C6_NewIdIsLastPlusOne ==
    \A p \in Procs :
        (Allocating(p) /\ ledger.rows # << >>) =>
            IF Last(ledger.rows).ID = MaxOf(IdsOf(ledger.rows))
            THEN /\ new_id[p] = MaxOf(IdsOf(ledger.rows)) + 1
                 /\ \A i \in 1..Len(ledger.rows) : new_id[p] > ledger.rows[i].ID
            ELSE /\ new_id[p] = Last(ledger.rows).ID + 1
                 /\ new_id[p] <= MaxOf(IdsOf(ledger.rows))
C6_Witness ==
    \E p \in Procs :
        /\ Allocating(p)
        /\ Len(ledger.rows) = 2
        /\ ledger.rows[1].ID + 1 < ledger.rows[2].ID

\* C7 as claimed: when a start or finalize of experiment X has written its
\* files, the single-row backup in X's directory is the ledger row whose ID is X.
C7_BackupIsOwnRow ==
    \A p \in Procs :
        (pc[p] = "unlock" /\ result[p] = "ok" /\ Cardinality(Matches(ledger.rows, IdDir(p))) = 1) =>
            /\ idfile[IdDir(p)].exists
            /\ idfile[IdDir(p)].row = RowOf(ledger.rows, IdDir(p))

\* C8: a finalize that finds more than one row with its ID ends with the
\* duplicate-ID error, and neither that step nor its way out of the operation
\* changes the ledger, the cp_ copy, a row backup, a directory or a loss log.
C8_DupStep ==
    \A p \in Procs :
        /\ (/\ pc[p] = "r2_body"
            /\ pc'[p] # pc[p]
            /\ Cardinality(Matches(ledger.rows, cur_id[p])) > 1)
           => /\ pc'[p] = "unlock"
              /\ result'[p] = "DuplicateID"
              /\ UNCHANGED <<ledger, cp, idfile, dirs, lossLog>>
        /\ (pc[p] = "unlock" /\ result[p] = "DuplicateID")
           => /\ UNCHANGED <<ledger, cp, idfile, dirs>>
              /\ pc'[p] \in {"unlock", "exited"}
C8_DuplicateRejected == [][C8_DupStep]_vars
C8_Witness ==
    \E p \in Procs :
        /\ pc[p] = "exited"
        /\ result[p] = "DuplicateID"
        /\ Len(ledger.rows) = 2

\* C9 as claimed: a finalize that has read the ledger and selected its row,
\* and finds the loss log of some mode neither in its own directory nor in
\* the infer_ID directory, goes on to write: it leaves that mode's loss as it
\* was and sets the loss of every other mode.
BothMissing(p, m) ==
    lossLog[cur_id[p]][m] = NoLog /\ lossLog[infer_ID[p]][m] = NoLog
C9_Step ==
    \A p \in Procs :
        (/\ pc[p] = "r2_body"
         /\ pc'[p] # pc[p]
         /\ ledger.exists
         /\ ledger.rows # << >>
         /\ Cardinality(Matches(ledger.rows, cur_id[p])) <= 1
         /\ \E m \in 1..NumModes : BothMissing(p, m))
        => /\ pc'[p] = "wb_csv"
           /\ \A m \in 1..NumModes :
                 LET i == Index(ledger.rows, cur_id[p])
                 IN  IF BothMissing(p, m)
                     THEN df'[p][i].loss[m] = ledger.rows[i].loss[m]
                     ELSE df'[p][i].loss[m] # NA
C9_MissingLogSkipped == [][C9_Step]_vars

\* C10: a start whose next ID already has an experiment directory ends with
\* the directory-collision error, returns no ID, and neither that step nor
\* its way out of the operation changes the rows of the ledger, the cp_ copy
\* or a row backup.
C10_Step ==
    \A p \in Procs :
        /\ (/\ pc[p] = "r1_body"
            /\ pc'[p] # pc[p]
            /\ LastPlusOne(ledger.rows) \in dirs)
           => /\ pc'[p] = "unlock"
              /\ result'[p] = "DirCollision"
              /\ new_id'[p] = 0
              /\ ledger'.rows = ledger.rows
              /\ UNCHANGED <<cp, idfile, started>>
        /\ (pc[p] = "unlock" /\ result[p] = "DirCollision")
           => /\ UNCHANGED <<ledger, cp, idfile, started>>
              /\ pc'[p] \in {"unlock", "exited"}
C10_CollisionRejected == [][C10_Step]_vars
C10_Witness ==
    \E p \in Procs :
        /\ pc[p] = "exited"
        /\ result[p] = "DirCollision"
        /\ ledger.rows # << >>

\* a finalize that has read the ledger and got past the selection of its row
Selecting(p) ==
    /\ pc[p] = "r2_body"
    /\ ledger.exists
    /\ ledger.rows # << >>
    /\ Cardinality(Matches(ledger.rows, cur_id[p])) <= 1
MinLoss(l) == CHOOSE x \in {l[i] : i \in 1..Len(l)} : \A i \in 1..Len(l) : x <= l[i]

\* C11 as claimed: for each mode whose loss log is missing in the directory of
\* the experiment and present in the infer_ID directory, a finalize that has
\* selected its row copies the log into its own directory, goes on to write,
\* and sets that mode's loss in its row to the minimum of the log's loss
\* column rounded to 2 decimals (0.1234 gives 0.12).
C11_Step ==
    \A p \in Procs : \A m \in 1..NumModes :
        (/\ Selecting(p)
         /\ pc'[p] # pc[p]
         /\ lossLog[cur_id[p]][m] = NoLog
         /\ lossLog[infer_ID[p]][m] # NoLog)
        => /\ lossLog'[cur_id[p]][m] = lossLog[infer_ID[p]][m]
           /\ pc'[p] = "wb_csv"
           /\ df'[p][Index(ledger.rows, cur_id[p])].loss[m]
                 = Round2(MinLoss(lossLog[infer_ID[p]][m]))
           /\ (MinLoss(lossLog[infer_ID[p]][m]) = 1234
                 => df'[p][Index(ledger.rows, cur_id[p])].loss[m] = 12)
C11_CopyForward == [][C11_Step]_vars

\* C12: whenever no process is inside an operation and some start or
\* finalize has completed, the cp_ backup exists and has the same rows as
\* the ledger file.
Completed == started # {} \/ \E p \in Procs : ~InCS(p) /\ result[p] = "ok"
C12_BackupEqualsLedger ==
    (Quiet /\ Completed) => (cp.exists /\ ledger.exists /\ cp.rows = ledger.rows)
C12_Witness ==
    /\ Quiet
    /\ Cardinality(started) = NumProcs
    /\ \E p \in Procs : pc[p] = "exited" /\ result[p] = "FileNotFound"
    /\ \E id \in started : fin[id].end # NA

\* a finalize that has built its table and is writing it, and one whose
\* table has reached the ledger file
Writing(p) == op[p] = "2nd" /\ pc[p] \in {"wb_csv", "wb_cp", "wb_id"}
Written(p) == op[p] = "2nd" /\ pc[p] \in {"wb_cp", "wb_id"}
\* the lists logged here have three elements
StoredAs(v) ==
    IF v.seq
    THEN [kind |-> "str", val |-> 0,
          text |-> ToString(v.items[1]) \o "_" \o ToString(v.items[2]) \o "_"
                       \o ToString(v.items[3]) \o "_"]
    ELSE [kind |-> "int", val |-> v.items[1], text |-> ""]

\* C16: the log value a finalize stores in its selected row, in its table and
\* then in the ledger file, is for a list the string of its elements in
\* order, each followed by an underscore ([1, 2, 3] is stored as "1_2_3_"),
\* and for any other value the value itself.
C16_Flattened ==
    \A p \in Procs :
        /\ Writing(p) => RowOf(df[p], cur_id[p]).log = StoredAs(log_dict[p])
        /\ Written(p) => RowOf(ledger.rows, cur_id[p]).log = StoredAs(log_dict[p])
        /\ (Written(p) /\ log_dict[p].seq /\ log_dict[p].items = <<1, 2, 3>>)
              => RowOf(ledger.rows, cur_id[p]).log = [kind |-> "str", val |-> 0, text |-> "1_2_3_"]
C16_Witness ==
    \E p \in Procs :
        /\ Written(p)
        /\ log_dict[p] = [seq |-> TRUE, items |-> <<1, 2, 3>>]
        /\ RowOf(ledger.rows, cur_id[p]).log.text = "1_2_3_"

\* C19 as claimed: a finalize that finds no row with its ID in a ledger that
\* has rows does not fail: it goes on to write a table with the same number
\* of rows, in which the first row carries the end stamp, the time elapsed
\* since that row's start stamp, the best-metrics marker and the log value,
\* and every other row is as it was.
C19_Step ==
    \A p \in Procs :
        (/\ Selecting(p)
         /\ pc'[p] # pc[p]
         /\ Matches(ledger.rows, cur_id[p]) = {})
        => /\ pc'[p] = "wb_csv"
           /\ Len(df'[p]) = Len(ledger.rows)
           /\ df'[p][1].end = clock'
           /\ df'[p][1].elapsed = clock' - ledger.rows[1].start
           /\ df'[p][1].metrics_min = "loss"
           /\ df'[p][1].log = Flatten(log_dict[p])
           /\ \A i \in 2..Len(ledger.rows) : df'[p][i] = ledger.rows[i]
C19_ZeroMatchFallback == [][C19_Step]_vars

\* ------------------------------------------------------------------ record_cgpu_info
\* A text is the sequence of its characters; outfile is None or a text.
NoneArg == [none |-> TRUE, text |-> << >>]
Text(t) == [none |-> FALSE, text |-> t]
TextSlurmGpu ==
    <<"s", "l", "u", "r", "m", "-", "1", "2", "3", "4", "_", "0", "5", ".", "o", "u", "t">>
TextSlurm ==
    <<"s", "l", "u", "r", "m", "-", "1", "2", "3", "4", ".", "o", "u", "t">>
TextSlurmGpuBare ==
    <<"s", "l", "u", "r", "m", "-", "1", "2", "3", "4", "_", "0", "5">>

\* "if outfile:" takes None and the empty text as false
TruthyNotNone(o) == ~o.none
Truthy(o) == ~o.none /\ o.text # << >>

\* str.split(sep): the pieces between the occurrences of sep
RECURSIVE Split(_, _)
Split(t, sep) ==
    IF \A i \in 1..Len(t) : t[i] # sep
    THEN <<t>>
    ELSE LET k == CHOOSE i \in 1..Len(t) : t[i] = sep /\ \A j \in 1..(i - 1) : t[j] # sep
         IN  <<SubSeq(t, 1, k - 1)>> \o Split(SubSeq(t, k + 1, Len(t)), sep)

\* lines 416-421: the device index is the second character of a 2-character
\* last segment (a str), and otherwise the int 0
GpuIdOf(tmp_split) ==
    IF Len(tmp_split) = 2
    THEN [str |-> TRUE, ch |-> tmp_split[2], n |-> 0]
    ELSE [str |-> FALSE, ch |-> "", n |-> 0]
GpuIndex(t) ==
    LET jobid_gpuid == Last(Split(t, "-"))
        tmp_split == Last(Split(jobid_gpuid, "_"))
    IN  GpuIdOf(tmp_split)

\* for i in range(60*10); gpu_util / 5
WindowShort == 60 * 10 - 1
Window == 60 * 10
AverageOverWindow(sum) == (sum * 10) \div Window
\* the quotient in tenths (a sum of whole percents divided by 5 has one decimal)
Average(sum) == (sum * 10) \div 5
\* str(x) of a float given in tenths
StrFloat(x10) == ToString(x10 \div 10) \o "." \o ToString(x10 % 10)

\* what the device reports: utilization percent, memory in bytes
UtilSamples == {0, 100}
MemInfo == [used |-> 1536 * 1024, total |-> 1024 * 1024 * 1024]
\* _bytes_to_megabytes: round((v / 1024) / 1024, 2), in 1/100 MB
MiB == 1024 * 1024
bytes_to_megabytes(v) ==
    LET whole == v \div MiB
        rest == (v % MiB) * 100
        q == rest \div MiB
        r2 == 2 * (rest % MiB)
    IN  whole * 100 + (IF r2 > MiB \/ (r2 = MiB /\ q % 2 = 1) THEN q + 1 ELSE q)
\* str(x) of a float given in 1/100
StrFloat2(x100) ==
    ToString(x100 \div 100) \o "." \o
        (IF x100 % 10 = 0 THEN ToString((x100 % 100) \div 10)
         ELSE ToString((x100 % 100) \div 10) \o ToString(x100 % 10))
GpuMemUsed(info) ==
    StrFloat2(bytes_to_megabytes(info.used)) \o "/" \o StrFloat2(bytes_to_megabytes(info.total))
GpuName(gpuid) == "gpu"

NoReturn == [done |-> FALSE, none |-> FALSE, gpuname |-> "", gpu_mem_usage |-> "", gpu_util |-> ""]
TeleCall(o) ==
    [pc |-> "call", outfile |-> o, gpuid |-> GpuIdOf(<< >>), gpuname |-> "", i |-> 0,
     gpu_util |-> 0, gpu_mem_used |-> "", sampled |-> 0, sleeps |-> 0, params |-> 0,
     metrics |-> 0, printed |-> FALSE, ret |-> NoReturn]

\* everything but the telemetry call stands still
LedgerOff ==
    /\ ledger = NoFile
    /\ cp = NoFile
    /\ idfile = [i \in IdRange |-> NoRowFile]
    /\ dirs = {}
    /\ lossLog = [i \in IdRange |-> [m \in 1..NumModes |-> NoLog]]
    /\ pc = [p \in Procs |-> "exited"]
    /\ op = [p \in Procs |-> "none"]
    /\ df = [p \in Procs |-> << >>]
    /\ new_id = [p \in Procs |-> 0]
    /\ cur_id = [p \in Procs |-> 0]
    /\ infer_ID = [p \in Procs |-> 0]
    /\ log_dict = [p \in Procs |-> NoInput]
    /\ result = [p \in Procs |-> "none"]
    /\ locks = [n \in LockNames |-> NoProc]
    /\ clock = 0
    /\ started = {}
    /\ fin = [i \in IdRange |-> [end |-> NA, log |-> NoCell]]
    /\ stray = FALSE
    /\ env = StillEnv

\* lines 399-430 with a true outfile: the host parameters (five log_param
\* and one log_params up to here), the device index, the handle and its name
TeleStart ==
    /\ tele.pc = "call"
    /\ Truthy(tele.outfile)
    /\ LET gpuid == GpuIndex(tele.outfile.text)
       IN  tele' = [tele EXCEPT !.pc = "sampling",
                                !.gpuid = gpuid,
                                !.gpuname = GpuName(gpuid),
                                !.params = 6,
                                !.gpu_util = 0]
    /\ UNCHANGED <<ledgerVars, typed, fill>>

\* lines 445-447: the diagnostic and the three None
TeleNoOutfile ==
    /\ tele.pc = "call"
    /\ ~Truthy(tele.outfile)
    /\ tele' = [tele EXCEPT !.pc = "returned",
                             !.printed = TRUE,
                             !.ret = [NoReturn EXCEPT !.done = TRUE, !.none = TRUE]]
    /\ UNCHANGED <<ledgerVars, typed, fill>>

\* lines 431-439: one turn of the loop
TeleSample ==
    /\ tele.pc = "sampling"
    /\ tele.i < Window
    /\ \E res \in UtilSamples :
          tele' = [tele EXCEPT !.gpu_util = @ + res,
                               !.sampled = @ + res,
                               !.sleeps = @ + 1,
                               !.metrics = @ + 2,
                               !.gpu_mem_used = GpuMemUsed(MemInfo),
                               !.i = @ + 1]
    /\ UNCHANGED <<ledgerVars, typed, fill>>

\* lines 440-444: the loop is over
TeleReturn ==
    /\ tele.pc = "sampling"
    /\ tele.i >= Window
    /\ tele' = [tele EXCEPT
                    !.pc = "returned",
                    !.gpu_util = Average(tele.gpu_util),
                    !.ret = [done |-> TRUE, none |-> FALSE,
                             gpuname |-> tele.gpuname,
                             gpu_mem_usage |-> tele.gpu_mem_used \o " MB",
                             gpu_util |-> StrFloat(Average(tele.gpu_util)) \o "%"]]
    /\ UNCHANGED <<ledgerVars, typed, fill>>

NextTele == TeleStart \/ TeleNoOutfile \/ TeleSample \/ TeleReturn

TeleOutfiles == {NoneArg, Text(<< >>), Text(TextSlurm)}
InitTele ==
    /\ LedgerOff
    /\ typed = TypedOff /\ fill = FillOff
    /\ tele \in {TeleCall(o) : o \in TeleOutfiles}

\* the call runs on a thread of its own, which keeps running
SpecTele == InitTele /\ [][NextTele]_vars /\ WF_vars(NextTele)

\* the derivation of the device index alone, on many file names
NameChars == {"-", "_", "5", "."}
MaxNameLen == 3
GpuOutfiles ==
    {Text(TextSlurmGpu), Text(TextSlurm), Text(TextSlurmGpuBare)}
        \cup {Text(t) : t \in UNION {[1..n -> NameChars] : n \in 1..MaxNameLen}}
InitGpu ==
    /\ LedgerOff
    /\ typed = TypedOff /\ fill = FillOff
    /\ tele \in {TeleCall(o) : o \in GpuOutfiles}
SpecGpu == InitGpu /\ [][TeleStart]_vars

\* C14 as claimed: the device index is taken from the last "_"-delimited
\* segment of the text after the final "-" (second character of a segment of
\* 2 characters, otherwise 0); "slurm-1234_05.out" yields '5' and
\* "slurm-1234.out" yields 0.
C14_GpuIndex ==
    tele.pc = "sampling" =>
        /\ tele.outfile.text = TextSlurmGpu
              => tele.gpuid = [str |-> TRUE, ch |-> "5", n |-> 0]
        /\ tele.outfile.text = TextSlurm
              => tele.gpuid = [str |-> FALSE, ch |-> "", n |-> 0]

\* C15: a call with a non-empty outfile ends; when it has ended it has taken
\* 600 samples and slept 600 times, once per sample, and the utilization it
\* returns is the sum of the 600 samples divided by 5, as text followed by "%".
C15_Result ==
    /\ tele.pc = "sampling" => tele.sleeps = tele.i /\ tele.i <= 600
    /\ (tele.pc = "returned" /\ ~tele.ret.none) =>
          /\ tele.i = 600
          /\ tele.sleeps = 600
          /\ tele.metrics = 2 * 600
          /\ tele.ret.gpu_util =
                ToString((tele.sampled * 2) \div 10) \o "." \o ToString((tele.sampled * 2) % 10) \o "%"
C15_Window ==
    /\ [](C15_Result)
    /\ (tele.pc = "call" /\ Truthy(tele.outfile)) ~> (tele.pc = "returned")
C15_Witness ==
    /\ tele.pc = "returned"
    /\ tele.sampled = 100 * 300
    /\ tele.ret.gpu_util = "6000.0%"

\* C18: a call with outfile None or empty takes no sample, never sleeps and
\* writes nothing to the tracking service; it prints the diagnostic and
\* returns three None.
C18_NoOp ==
    (tele.pc # "off" /\ (tele.outfile.none \/ tele.outfile.text = << >>)) =>
        /\ tele.i = 0 /\ tele.sleeps = 0 /\ tele.params = 0 /\ tele.metrics = 0
        /\ tele.pc \in {"call", "returned"}
        /\ tele.pc = "returned" => tele.printed /\ tele.ret.done /\ tele.ret.none
C18_Witness ==
    /\ tele.pc = "returned"
    /\ tele.outfile = Text(<< >>)
    /\ tele.ret.none

\* ------------------------------------------------------------------ the typing of a column
\* One column of the ledger that holds an argument (a hyperparameter) of the
\* experiments, through read_csv, the new row of record_1st, correct_type,
\* the astype passes of record_2nd and to_csv.
\*
\* A number is n, or n + 1/2 when half.  FloatExact stands for 2^53: a float
\* holds every integer up to it, and above it only every second one.
MaxCells == 2
FloatExact == 8
ToFloat(n) ==
    IF n <= FloatExact \/ n % 2 = 0 THEN n
    ELSE IF ((n - 1) \div 2) % 2 = 0 THEN n - 1 ELSE n + 1

\* a cell of the csv text: empty, an integer literal (3) or a float literal (3.0, 3.5)
EmptyTok == [form |-> "empty", n |-> 0, half |-> FALSE]
IntTok(n) == [form |-> "int", n |-> n, half |-> FALSE]
FloatTok(n, half) == [form |-> "float", n |-> n, half |-> half]
Toks == {EmptyTok, IntTok(3), IntTok(5), IntTok(FloatExact + 1), FloatTok(3, FALSE), FloatTok(3, TRUE)}

\* a cell in memory: NaN / None / NA, a Python int, or a float
NaCell == [t |-> "na", n |-> 0, half |-> FALSE]
IntCell(n) == [t |-> "int", n |-> n, half |-> FALSE]
FloatCell(n, half) == [t |-> "float", n |-> n, half |-> half]
\* the values an argument can have: None, an int, a float
ArgVals == {NaCell, IntCell(3), IntCell(5), IntCell(FloatExact + 1), FloatCell(3, TRUE)}

\* pd.read_csv: a column of integer literals only is int64; with an empty
\* cell or a float literal among them it is float64
read_csv(toks) ==
    IF \A i \in 1..Len(toks) : toks[i].form = "int"
    THEN [dtype |-> "int64", cells |-> [i \in 1..Len(toks) |-> IntCell(toks[i].n)]]
    ELSE [dtype |-> "float64",
          cells |-> [i \in 1..Len(toks) |->
                        IF toks[i].form = "empty" THEN NaCell
                        ELSE IF toks[i].form = "int" THEN FloatCell(ToFloat(toks[i].n), FALSE)
                        ELSE FloatCell(toks[i].n, toks[i].half)]]

\* astype(float)
astype_float(col) ==
    [dtype |-> "float64",
     cells |-> [i \in 1..Len(col.cells) |->
                   IF col.cells[i].t = "int" THEN FloatCell(ToFloat(col.cells[i].n), FALSE)
                   ELSE col.cells[i]]]

\* astype('Int64'): raises on a cell that is not a whole number
astype_Int64(col) ==
    IF \E i \in 1..Len(col.cells) : col.cells[i].half
    THEN [ok |-> FALSE, col |-> col]
    ELSE [ok |-> TRUE,
          col |-> [dtype |-> "Int64",
                   cells |-> [i \in 1..Len(col.cells) |->
                                 IF col.cells[i].t = "na" THEN NaCell
                                 ELSE IntCell(col.cells[i].n)]]]

\* type(df[column].to_list()[-1])
LastType(col) ==
    IF col.dtype = "float64" THEN "float" ELSE Last(col.cells).t

\* correct_type, for one column
correct_type(col) ==
    IF LastType(col) = "int" THEN astype_Int64(col) ELSE [ok |-> TRUE, col |-> col]

\* lines 241-246: the only row of a new table, or one more row below the
\* last one (the new row is all NaN before its cells are set, which turns an
\* int64 column into float64)
NewRowCol(file, a) ==
    IF ~file.exists \/ file.toks = << >>
    THEN [dtype |-> IF a.t = "int" THEN "int64" ELSE IF a.t = "float" THEN "float64" ELSE "object",
          cells |-> <<a>>]
    ELSE LET c == astype_float(read_csv(file.toks))
         IN  [dtype |-> "float64",
              cells |-> Append(c.cells,
                               IF a.t = "na" THEN NaCell ELSE FloatCell(ToFloat(a.n), a.half))]

\* df.to_csv: NaN, None and NA as empty cells, an integer column as integer
\* literals, a float column with its decimals
to_csv(col) ==
    [i \in 1..Len(col.cells) |->
        IF col.cells[i].t = "na" THEN EmptyTok
        ELSE IF col.dtype = "float64" \/ col.cells[i].t = "float"
        THEN FloatTok(col.cells[i].n, col.cells[i].half)
        ELSE IntTok(col.cells[i].n)]

\* lines 312-320, for a column named in args: the type of the last value,
\* then the float-and-back pass when the argument is an int
second_passes(col, a) ==
    LET c1 == IF LastType(col) = "int" THEN astype_Int64(col) ELSE [ok |-> TRUE, col |-> col]
    IN  IF ~c1.ok THEN c1
        ELSE IF a.t = "int" THEN astype_Int64(astype_float(c1.col))
        ELSE c1

NoCall == [op |-> "none", ok |-> TRUE, before |-> << >>, arg |-> NaCell, index |-> 0]
TypedFile(f) == [pc |-> "on", file |-> f, last |-> NoCall]

\* record_1st with the argument a: the column after lines 231-250
Typed1st ==
    /\ typed.pc = "on"
    /\ Len(typed.file.toks) < MaxCells
    /\ \E a \in ArgVals :
          /\ a.n > FloatExact => typed.file.toks = << >>
          /\ LET c == correct_type(NewRowCol(typed.file, a))
             IN  typed' = [typed EXCEPT
                              !.file = IF c.ok THEN [exists |-> TRUE, toks |-> to_csv(c.col)]
                                       ELSE [exists |-> TRUE, toks |-> typed.file.toks],
                              !.last = [op |-> "1st", ok |-> c.ok, before |-> typed.file.toks,
                                        arg |-> a, index |-> Len(typed.file.toks) + 1]]
    /\ UNCHANGED <<ledgerVars, tele, fill>>

\* the argument the experiment of row i was started with, as far as the file tells
ArgOfRow(tok) ==
    IF tok.form = "empty" THEN {NaCell}
    ELSE IF tok.half THEN {FloatCell(tok.n, TRUE)}
    ELSE IF tok.form = "int" THEN {IntCell(tok.n)}
    ELSE {IntCell(tok.n), FloatCell(tok.n, FALSE)}

\* record_2nd for the experiment of row i: the column after lines 275-321
Typed2nd ==
    /\ typed.pc = "on"
    /\ typed.file.exists
    /\ \E i \in 1..Len(typed.file.toks) : \E a \in ArgOfRow(typed.file.toks[i]) :
          LET c == second_passes(read_csv(typed.file.toks), a)
          IN  typed' = [typed EXCEPT
                           !.file = IF c.ok THEN [exists |-> TRUE, toks |-> to_csv(c.col)]
                                    ELSE typed.file,
                           !.last = [op |-> "2nd", ok |-> c.ok, before |-> typed.file.toks,
                                     arg |-> a, index |-> i]]
    /\ UNCHANGED <<ledgerVars, tele, fill>>

NextTyped == Typed1st \/ Typed2nd

\* any column an earlier run, another tool or an editor may have left behind
InitTyped ==
    /\ LedgerOff
    /\ tele = TeleOff /\ fill = FillOff
    /\ typed \in {TypedFile([exists |-> FALSE, toks |-> << >>])}
                  \cup {TypedFile([exists |-> TRUE, toks |-> t]) :
                            t \in UNION {[1..n -> Toks] : n \in 0..MaxCells}}
SpecTyped == InitTyped /\ [][NextTyped]_vars

\* the number a cell of the text stands for
Whole(tok) == tok.form # "empty" /\ ~tok.half /\ tok.n <= FloatExact

\* C17 as claimed: when a start has appended an integer to a column whose
\* present cells are whole numbers ([3, absent] and then 5), the column it
\* writes after Type-Correction holds every present cell as an integer (3,
\* not 3.0) and every absent cell as absent, and reads back that way.
C17_TypeStable ==
    (/\ typed.pc = "on"
     /\ typed.last.op = "1st" /\ typed.last.ok
     /\ typed.last.arg.t = "int"
     /\ \A i \in 1..Len(typed.last.before) :
           typed.last.before[i].form = "empty" \/ Whole(typed.last.before[i]))
    => /\ Len(typed.file.toks) = Len(typed.last.before) + 1
       /\ \A i \in 1..Len(typed.last.before) :
             IF typed.last.before[i].form = "empty"
             THEN typed.file.toks[i] = EmptyTok
             ELSE typed.file.toks[i] = IntTok(typed.last.before[i].n)
       /\ Last(typed.file.toks) = IntTok(typed.last.arg.n)

\* C20 as claimed: a finalize leaves the number of rows as it is and changes
\* no cell of a row other than its own: every other cell of the column stands
\* for the number it stood for, or stays absent.
SameValue(t1, t2) ==
    /\ (t1.form = "empty") = (t2.form = "empty")
    /\ t1.n = t2.n
    /\ t1.half = t2.half
Digits == {"0", "1", "2", "3", "4", "5", "6", "7", "8", "9"}
JobIdOf(t) == Split(Last(Split(t, "-")), "_")[1]
\* seff reports on a job id made of digits; for anything else it prints no
\* "key: value" line
IsJobId(t) == t # << >> /\ \A i \in 1..Len(t) : t[i] \in Digits
Parses(o) == ~o.none /\ IsJobId(JobIdOf(o.text))

TextJob == <<"s", "l", "u", "r", "m", "-", "1", "2", "3", "4">>
TextMalformed == <<"o", "u", "t", "_", "x">>
FillOutfiles == {NoneArg, Text(TextSlurm), Text(TextSlurmGpuBare), Text(TextJob), Text(TextMalformed)}
FillStates == {"NA", "RUNNING", "COMPLETED"}
MaxFillRows == 2
FillRow(st, o) == [State |-> st, outfile |-> o, ID |-> 1]
FillTables ==
    UNION {[1..n -> {FillRow(st, o) : st \in FillStates, o \in FillOutfiles}] : n \in 1..MaxFillRows}

\* what the rows of the table get from seff: the answer for their job, and
\* nothing when the outfile gives no job id
SeffFor(d, answers) ==
    [i \in 1..Len(d) |-> IF Parses(d[i].outfile) THEN answers[i] ELSE "none"]

FillCall(d) == [pc |-> "call", df |-> d, answers |-> << >>, out |-> << >>]

\* df = fill_running(df)
FillRun ==
    /\ fill.pc = "call"
    /\ \E answers \in [1..Len(fill.df) -> SeffOut] :
          fill' = [fill EXCEPT !.pc = "returned",
                               !.answers = answers,
                               !.out = fill_running(fill.df, SeffFor(fill.df, answers))]
    /\ UNCHANGED <<ledgerVars, tele, typed>>

InitFill ==
    /\ LedgerOff
    /\ tele = TeleOff /\ typed = TypedOff
    /\ fill \in {FillCall(d) : d \in FillTables}
SpecFill == InitFill /\ [][FillRun]_vars

\* C13: fill_running returns a table of the same rows; a row that qualifies
\* (State absent or RUNNING) and whose outfile gives no job id is returned as
\* it was, and every qualifying row whose job seff reports on, also one below
\* such a row, gets the reported State.
C13_Resilient ==
    fill.pc = "returned" =>
        /\ Len(fill.out) = Len(fill.df)
        /\ \A i \in 1..Len(fill.df) :
              /\ (Qualifies(fill.df[i]) /\ ~Parses(fill.df[i].outfile))
                    => fill.out[i] = fill.df[i]
              /\ (Qualifies(fill.df[i]) /\ Parses(fill.df[i].outfile) /\ fill.answers[i] # "none")
                    => fill.out[i] = [fill.df[i] EXCEPT !.State = fill.answers[i]]
              /\ ~Qualifies(fill.df[i]) => fill.out[i] = fill.df[i]
C13_Witness ==
    /\ fill.pc = "returned"
    /\ Len(fill.df) = 2
    /\ fill.df[1].State = "RUNNING" /\ fill.df[1].outfile = Text(TextMalformed)
    /\ fill.out[1] = fill.df[1]
    /\ fill.df[2].State = "NA" /\ fill.df[2].outfile = Text(TextJob)
    /\ fill.out[2].State = "COMPLETED"

====
